---- MODULE Spec2Model ----
(***************************************************************************)
(* Model of the THPU white-paper front end: the two viewer components      *)
(* (WhitePaperViewer, PresentationViewer), the router that mounts them,    *)
(* their one-shot Content API fetch and their navigation handlers.         *)
(*                                                                         *)
(* Positions of the document viewer are the integers the code stores in    *)
(* activeSection: -1 is the Abstract entry, -2 the References entry and    *)
(* 0..N-1 the sections.  Positions of the slide viewer are the integers    *)
(* stored in currentSlide.                                                 *)
(***************************************************************************)
EXTENDS Integers, FiniteSets, Sequences, TLC

\* ---------------------------------------------------------------- bounds
\* Largest number of sections a fetched paper holds in the model.
MaxSections == 4
\* Largest number of slides a fetched deck holds in the model.
MaxSlides == 4
\* How far beyond either end of the deck a direct goToSlide call may aim.
MaxOvershoot == 2

\* ------------------------------------------------------- program constants
\* The table of contents stores -1 for the Abstract entry.
ABSTRACT == -1
\* The table of contents stores -2 for the References entry.
REFERENCES == -2
\* useState(0): the section index a WhitePaperViewer is created with.
InitialActiveSection == 0
\* useState(0): the slide index a PresentationViewer is created with.
InitialCurrentSlide == 0

VARIABLES
    route,          \* window.location.pathname: the mounted route
    whitePaper,     \* WhitePaperViewer state: the fetched paper, or null
    wpLoading,      \* WhitePaperViewer state: loading
    activeSection,  \* WhitePaperViewer state: the navigation position
    wpError,        \* WhitePaperViewer state: error
    wpEffectDone,   \* whether the viewer's mount effect has run
    wpPending,      \* number of GET /api/whitepaper awaiting their response
    wpFetches,      \* number of GET /api/whitepaper issued by this session
    presentation,   \* PresentationViewer state: the fetched deck, or null
    pvLoading,      \* PresentationViewer state: loading
    currentSlide,   \* PresentationViewer state: the navigation position
    pvError,        \* PresentationViewer state: error
    pvEffectDone,   \* whether the viewer's mount effect has run
    pvPending,      \* number of GET /api/presentation awaiting their response
    pvFetches,      \* number of GET /api/presentation issued by this session
    lastOp,         \* the last navigation handler run in this session
    lastFrom,       \* the position that handler started from
    lastArg,        \* the argument that handler was given (0 if none)
    content,        \* the markup text handed to a renderer
    figures,        \* the figures of the section handed to the renderer
    surface,        \* which renderer has run: "none", "document", "section", "slide"
    blocks          \* the elements that renderer returned

vars == <<route, whitePaper, wpLoading, activeSection, wpError, wpEffectDone,
          wpPending, wpFetches, presentation, pvLoading, currentSlide, pvError,
          pvEffectDone, pvPending, pvFetches, lastOp, lastFrom, lastArg,
          content, figures, surface, blocks>>

wpVars == <<whitePaper, wpLoading, activeSection, wpError, wpEffectDone,
            wpPending, wpFetches>>
pvVars == <<presentation, pvLoading, currentSlide, pvError, pvEffectDone,
            pvPending, pvFetches>>
opVars == <<lastOp, lastFrom, lastArg>>
renderVars == <<content, figures, surface, blocks>>

\* ------------------------------------------------------------ JS helpers
Max(a, b) == IF a >= b THEN a ELSE b
Min(a, b) == IF a <= b THEN a ELSE b

\* null of useState(null) for the fetched object, and a fetched object.
NullData == [isNull |-> TRUE, length |-> 0]
\* (variant that reads a field the response does not have: undefined)
FetchedUndefined(n) == NullData
Fetched(n) == [isNull |-> FALSE, length |-> n]
\* null of useState(null) for the error message.
NullError == "null"

\* --------------------------------------------- WhitePaperViewer handlers
\* whitePaper?.sections?.length
SectionsLength == whitePaper.length

\* Previous button: setActiveSection(Math.max(-1, activeSection - 1))
\* (variant without the Math.max clamp)
wpPreviousUnclamped(a) == a - 1
wpPrevious(a) == Max(-1, a - 1)
\* Previous button: disabled={activeSection === -1}
wpPreviousDisabled(a) == a = -1

\* Next button: setActiveSection(Math.min(sections.length - 1, activeSection + 1))
\* (variant without the Math.min clamp)
wpNextUnclamped(len, a) == a + 1
wpNext(len, a) == Min(len - 1, a + 1)
\* (variant that compares with sections.length)
wpNextDisabledAtLength(len, a) == a = len
\* Next button: disabled={activeSection === sections.length - 1}
wpNextDisabled(len, a) == a = len - 1

\* (variant of the table of contents without the References button)
TocEntriesNoReferences(len) == {ABSTRACT} \cup (0 .. len - 1)
\* The positions the table of contents offers: Abstract, one per section,
\* References.
TocEntries(len) == {ABSTRACT} \cup (0 .. len - 1) \cup {REFERENCES}

\* ------------------------------------------- PresentationViewer handlers
\* presentation?.slides?.length
SlidesLength == presentation.length

\* (variant whose guard compares with <= instead of <)
nextSlideOffByOne(len, cur) == IF cur <= len - 1 THEN cur + 1 ELSE cur
\* if (currentSlide < slides.length - 1) setCurrentSlide(currentSlide + 1)
nextSlide(len, cur) == IF cur < len - 1 THEN cur + 1 ELSE cur
\* if (currentSlide > 0) setCurrentSlide(currentSlide - 1)
prevSlide(cur) == IF cur > 0 THEN cur - 1 ELSE cur
\* (variant that takes the 1-based label of a thumbnail for its index)
goToSlideOneBased(index) == index + 1
\* setCurrentSlide(index): the argument is stored as given.
goToSlide(index) == index

\* Previous button: disabled={currentSlide === 0}
prevSlideDisabled(cur) == cur = 0
\* Next button: disabled={currentSlide === slides.length - 1}
nextSlideDisabled(len, cur) == cur = len - 1

\* The indices the thumbnails and the dots pass to goToSlide.
SlideButtons(len) == 0 .. len - 1

\* ------------------------------------------------------------- rendering
\* WhitePaperViewer returns the loading pane while loading, the error pane
\* when error is set, and the paper (table of contents, panes, buttons)
\* otherwise.
\* (variant without the if (loading) return)
wpContentRenderedWhileLoading == route = "/whitepaper" /\ wpError = NullError
wpContentRendered == route = "/whitepaper" /\ ~wpLoading /\ wpError = NullError
\* PresentationViewer likewise.
\* (variant without the if (error) return)
pvContentRenderedDespiteError == route = "/presentation" /\ ~pvLoading
pvContentRendered == route = "/presentation" /\ ~pvLoading /\ pvError = NullError

\* The pane each viewer returns: if (loading) ...; if (error) ...; the content.
wpPane ==
    IF wpLoading THEN "loading"
    ELSE IF wpError # NullError THEN "error"
    ELSE "content"

pvPane ==
    IF pvLoading THEN "loading"
    ELSE IF pvError # NullError THEN "error"
    ELSE "content"

\* The content display of the paper: three conditional panes.
\* {activeSection === -1 && (...)}
wpAbstractPane(a) == a = -1
\* {activeSection === -2 && (...)}
wpReferencesPane(a) == a = -2
\* {activeSection >= 0 && whitePaper?.sections?.[activeSection] && (...)}:
\* sections[a] is undefined beyond the end of the list.
wpSectionPane(len, a) == a >= 0 /\ a < len
\* The panes the content display shows at position a of a paper of len sections.
wpContentPanes(len, a) ==
    {pane \in {"abstract", "references", "section"} :
        \/ pane = "abstract" /\ wpAbstractPane(a)
        \/ pane = "references" /\ wpReferencesPane(a)
        \/ pane = "section" /\ wpSectionPane(len, a)}

\* useEffect(() => { fetchWhitePaper(); }, []): the effect runs once, after
\* the first render of a mounted viewer.
\* (variant without the [] dependency list: the effect runs after every render)
wpEffectRunsEveryRender == route = "/whitepaper"
wpEffectRuns == route = "/whitepaper" /\ ~wpEffectDone
\* useEffect(() => { fetchPresentation(); }, [])
pvEffectRuns == route = "/presentation" /\ ~pvEffectDone

\* ----------------------------------------------------------------- Init
\* The state a viewer is created with (its useState initial values); a
\* viewer that is not mounted is held at these values.
WpCreated ==
    /\ whitePaper = NullData
    /\ wpLoading = TRUE
    /\ activeSection = InitialActiveSection
    /\ wpError = NullError
    /\ wpEffectDone = FALSE
    /\ wpPending = 0
    /\ wpFetches = 0

PvCreated ==
    /\ presentation = NullData
    /\ pvLoading = TRUE
    /\ currentSlide = InitialCurrentSlide
    /\ pvError = NullError
    /\ pvEffectDone = FALSE
    /\ pvPending = 0
    /\ pvFetches = 0

NoOpYet == lastOp = "none" /\ lastFrom = 0 /\ lastArg = 0

\* No text has been handed to a renderer.
NothingRendered ==
    /\ content = <<>>
    /\ figures = <<>>
    /\ surface = "none"
    /\ blocks = <<>>

Init ==
    /\ route = "/"
    /\ WpCreated
    /\ PvCreated
    /\ NoOpYet
    /\ NothingRendered

\* -------------------------------------------------------------- routing
\* The links each render offers: Home links to both viewers; a loaded
\* viewer links to Home and to the other viewer; the error pane links to
\* Home; the loading pane holds no link.
Links ==
    CASE route = "/" -> {"/whitepaper", "/presentation"}
      [] route = "/whitepaper" ->
            IF wpLoading THEN {}
            ELSE IF wpError # NullError THEN {"/"}
            ELSE {"/", "/presentation"}
      [] route = "/presentation" ->
            IF pvLoading THEN {}
            ELSE IF pvError # NullError THEN {"/"}
            ELSE {"/", "/whitepaper"}

\* A route change unmounts the viewer of the old route and creates the
\* viewer of the new one: a new view session.
Mount(r) ==
    /\ route' = r
    /\ whitePaper' = NullData
    /\ wpLoading' = TRUE
    /\ activeSection' = InitialActiveSection
    /\ wpError' = NullError
    /\ wpEffectDone' = FALSE
    /\ wpPending' = 0
    /\ wpFetches' = 0
    /\ presentation' = NullData
    /\ pvLoading' = TRUE
    /\ currentSlide' = InitialCurrentSlide
    /\ pvError' = NullError
    /\ pvEffectDone' = FALSE
    /\ pvPending' = 0
    /\ pvFetches' = 0
    /\ lastOp' = "none"
    /\ lastFrom' = 0
    /\ lastArg' = 0
    /\ UNCHANGED renderVars

LinkClick(r) ==
    /\ r \in Links
    /\ Mount(r)

\* document keydown listener: on /presentation, Escape loads "/"; the two
\* arrow keys only have their default action prevented.
KeyDown(key) ==
    /\ route = "/presentation"
    /\ IF key = "Escape" THEN Mount("/") ELSE UNCHANGED vars

\* ------------------------------------------------------------- fetching
WpUseEffect ==
    /\ wpEffectRuns
    /\ wpEffectDone' = TRUE
    /\ wpPending' = wpPending + 1
    /\ wpFetches' = wpFetches + 1
    /\ UNCHANGED <<route, whitePaper, wpLoading, activeSection, wpError>>
    /\ UNCHANGED <<pvVars, opVars, renderVars>>

\* try branch of fetchWhitePaper: the response holds a paper of n sections.
WpFetchResolve(n) ==
    /\ route = "/whitepaper"
    /\ wpPending > 0
    /\ whitePaper' = Fetched(n)
    /\ wpLoading' = FALSE
    /\ wpPending' = wpPending - 1
    /\ UNCHANGED <<route, activeSection, wpError, wpEffectDone, wpFetches>>
    /\ UNCHANGED <<pvVars, opVars, renderVars>>

\* catch branch of fetchWhitePaper.
WpFetchReject ==
    /\ route = "/whitepaper"
    /\ wpPending > 0
    /\ wpError' = "Failed to load white paper"
    /\ wpLoading' = FALSE
    /\ wpPending' = wpPending - 1
    /\ UNCHANGED <<route, whitePaper, activeSection, wpEffectDone, wpFetches>>
    /\ UNCHANGED <<pvVars, opVars, renderVars>>

PvUseEffect ==
    /\ pvEffectRuns
    /\ pvEffectDone' = TRUE
    /\ pvPending' = pvPending + 1
    /\ pvFetches' = pvFetches + 1
    /\ UNCHANGED <<route, presentation, pvLoading, currentSlide, pvError>>
    /\ UNCHANGED <<wpVars, opVars, renderVars>>

\* try branch of fetchPresentation: the response holds a deck of n slides.
PvFetchResolve(n) ==
    /\ route = "/presentation"
    /\ pvPending > 0
    /\ presentation' = Fetched(n)
    /\ pvLoading' = FALSE
    /\ pvPending' = pvPending - 1
    /\ UNCHANGED <<route, currentSlide, pvError, pvEffectDone, pvFetches>>
    /\ UNCHANGED <<wpVars, opVars, renderVars>>

\* catch branch of fetchPresentation.
PvFetchReject ==
    /\ route = "/presentation"
    /\ pvPending > 0
    /\ pvError' = "Failed to load presentation"
    /\ pvLoading' = FALSE
    /\ pvPending' = pvPending - 1
    /\ UNCHANGED <<route, presentation, currentSlide, pvEffectDone, pvFetches>>
    /\ UNCHANGED <<wpVars, opVars, renderVars>>

\* ------------------------------------------- document viewer navigation
\* setActiveSection(to) by the handler named op, recorded in lastOp.
SetActiveSection(op, arg, to) ==
    /\ activeSection' = to
    /\ lastOp' = op
    /\ lastFrom' = activeSection
    /\ lastArg' = arg
    /\ UNCHANGED <<route, whitePaper, wpLoading, wpError,
                   wpEffectDone, wpPending, wpFetches>>
    /\ UNCHANGED <<pvVars, renderVars>>

\* A table-of-contents button: setActiveSection(-1 | index | -2).
WpTocClick(p) ==
    /\ wpContentRendered
    /\ p \in TocEntries(SectionsLength)
    /\ SetActiveSection("toc", p, p)

\* The Previous handler, whenever the paper is rendered.
WpPreviousCall ==
    /\ wpContentRendered
    /\ SetActiveSection("wpPrevious", 0, wpPrevious(activeSection))

\* The Next handler, whenever the paper is rendered.
WpNextCall ==
    /\ wpContentRendered
    /\ SetActiveSection("wpNext", 0, wpNext(SectionsLength, activeSection))

\* A click on the Previous button: a disabled button runs no handler.
WpPreviousClick ==
    /\ ~wpPreviousDisabled(activeSection)
    /\ WpPreviousCall

\* A click on the Next button.
WpNextClick ==
    /\ wpContentRendered
    /\ ~wpNextDisabled(SectionsLength, activeSection)
    /\ WpNextCall

\* ---------------------------------------------- slide viewer navigation
SetCurrentSlide(op, arg, to) ==
    /\ currentSlide' = to
    /\ lastOp' = op
    /\ lastFrom' = currentSlide
    /\ lastArg' = arg
    /\ UNCHANGED <<route, presentation, pvLoading, pvError,
                   pvEffectDone, pvPending, pvFetches>>
    /\ UNCHANGED <<wpVars, renderVars>>

PrevSlideCall ==
    /\ pvContentRendered
    /\ SetCurrentSlide("prevSlide", 0, prevSlide(currentSlide))

NextSlideCall ==
    /\ pvContentRendered
    /\ SetCurrentSlide("nextSlide", 0, nextSlide(SlidesLength, currentSlide))

\* goToSlide(index) for an arbitrary integer argument.
GoToSlideCall(index) ==
    /\ pvContentRendered
    /\ SetCurrentSlide("goToSlide", index, goToSlide(index))

PrevSlideClick ==
    /\ ~prevSlideDisabled(currentSlide)
    /\ PrevSlideCall

NextSlideClick ==
    /\ pvContentRendered
    /\ ~nextSlideDisabled(SlidesLength, currentSlide)
    /\ NextSlideCall

\* A thumbnail or dot: goToSlide(index) with the index of a slide.
GoToSlideClick(index) ==
    /\ pvContentRendered
    /\ index \in SlideButtons(SlidesLength)
    /\ GoToSlideCall(index)

\* ------------------------------------------------------- specifications
Routes == {"/", "/whitepaper", "/presentation"}
Keys == {"ArrowLeft", "ArrowRight", "Escape"}
\* The arguments a direct goToSlide call is tried with.
GoToArgs == (0 - MaxOvershoot) .. (MaxSlides + MaxOvershoot)

Session ==
    \/ \E r \in Routes : LinkClick(r)
    \/ \E key \in Keys : KeyDown(key)
    \/ WpUseEffect
    \/ \E n \in 0 .. MaxSections : WpFetchResolve(n)
    \/ WpFetchReject
    \/ PvUseEffect
    \/ \E n \in 0 .. MaxSlides : PvFetchResolve(n)
    \/ PvFetchReject

\* The program as the user drives it: links, keys and the rendered buttons.
Next ==
    \/ Session
    \/ \E p \in TocEntries(MaxSections) : WpTocClick(p)
    \/ WpPreviousClick
    \/ WpNextClick
    \/ PrevSlideClick
    \/ NextSlideClick
    \/ \E i \in SlideButtons(MaxSlides) : GoToSlideClick(i)

Spec == Init /\ [][Next]_vars

\* The navigation handlers as operations: each may be run in any state in
\* which its viewer is rendered, goToSlide with any argument of GoToArgs.
NextOps ==
    \/ Session
    \/ \E p \in TocEntries(MaxSections) : WpTocClick(p)
    \/ WpPreviousCall
    \/ WpNextCall
    \/ PrevSlideCall
    \/ NextSlideCall
    \/ \E i \in GoToArgs : GoToSlideCall(i)

SpecOps == Init /\ [][NextOps]_vars

\* ------------------------------------------------------ markup: strings
\* A text is a sequence of characters, each a string of length one.
Newline == "\n"
\* The backquote character; a string of this notation cannot hold it, so the
\* circumflex stands for it.
Backquote == "^"
\* The characters String.prototype.trim removes that the texts can hold.
IsWhitespace(c) == c \in {" ", "\t", "\r", Newline}

\* String.prototype.startsWith / endsWith
startsWith(s, prefix) ==
    /\ Len(s) >= Len(prefix)
    /\ SubSeq(s, 1, Len(prefix)) = prefix
endsWith(s, suffix) ==
    /\ Len(s) >= Len(suffix)
    /\ SubSeq(s, Len(s) - Len(suffix) + 1, Len(s)) = suffix

RECURSIVE trimStart(_)
trimStart(s) ==
    IF s # <<>> /\ IsWhitespace(Head(s)) THEN trimStart(Tail(s)) ELSE s
RECURSIVE trimEnd(_)
trimEnd(s) ==
    IF s # <<>> /\ IsWhitespace(s[Len(s)])
    THEN trimEnd(SubSeq(s, 1, Len(s) - 1))
    ELSE s
\* String.prototype.trim
trim(s) == trimEnd(trimStart(s))

\* s.replace(/pattern/g, ''): every occurrence, leftmost first, removed.
RECURSIVE replaceAll(_, _)
replaceAll(s, pattern) ==
    IF s = <<>> THEN <<>>
    ELSE IF startsWith(s, pattern)
         THEN replaceAll(SubSeq(s, Len(pattern) + 1, Len(s)), pattern)
         ELSE <<Head(s)>> \o replaceAll(Tail(s), pattern)

\* s.replace('pattern', ''): the first occurrence removed.
RECURSIVE replaceFirst(_, _)
replaceFirst(s, pattern) ==
    IF s = <<>> THEN <<>>
    ELSE IF startsWith(s, pattern)
         THEN SubSeq(s, Len(pattern) + 1, Len(s))
         ELSE <<Head(s)>> \o replaceFirst(Tail(s), pattern)

\* s.replace(/^\*/, ''): a leading star removed.
replaceLeadingStar(s) == IF startsWith(s, <<"*">>) THEN Tail(s) ELSE s

\* s.split('\n'): the lines of s; the empty text has one empty line.
RECURSIVE split(_)
split(s) ==
    IF \A i \in 1 .. Len(s) : s[i] # Newline THEN <<s>>
    ELSE LET k == CHOOSE i \in 1 .. Len(s) :
                    /\ s[i] = Newline
                    /\ \A j \in 1 .. i - 1 : s[j] # Newline
         IN <<SubSeq(s, 1, k - 1)>> \o split(SubSeq(s, k + 1, Len(s)))

\* The markers the renderers test for.
Bold == <<"*", "*">>
Star == <<"*">>
Fence == <<Backquote, Backquote, Backquote>>
H1 == <<"#", " ">>
H2 == <<"#", "#", " ">>
H3 == <<"#", "#", "#", " ">>
Bullet == <<"-", " ">>
Rule == <<"-", "-", "-">>

\* ------------------------------------------------------ markup: elements
\* An element a renderer returns: its block type and its text.  null is what
\* a renderer returns for nothing; React renders no element for it.
Block(type, text) == [type |-> type, text |-> text]
NullBlock == Block("null", <<>>)

\* (variant of renderContentLine that tests paragraph === '' without trim)
renderContentLineUntrimmed(paragraph) ==
    IF paragraph = <<>> THEN NullBlock
    ELSE IF startsWith(paragraph, Bold) /\ endsWith(paragraph, Bold)
         THEN Block("EmphasisStrong", replaceAll(paragraph, Bold))
    ELSE IF startsWith(paragraph, Star) /\ endsWith(paragraph, Star)
         THEN Block("EmphasisLight", replaceAll(paragraph, Star))
    ELSE IF startsWith(paragraph, Fence) /\ endsWith(paragraph, Fence)
         THEN Block("Code", replaceAll(paragraph, Fence))
    ELSE Block("Paragraph", paragraph)

\* renderContent, one line: h4 (Emphasis-strong), h5 (Emphasis-light),
\* pre/code (Code), p (Paragraph); null for a blank line.
renderContentLine(paragraph) ==
    IF trim(paragraph) = <<>> THEN NullBlock
    ELSE IF startsWith(paragraph, Bold) /\ endsWith(paragraph, Bold)
         THEN Block("EmphasisStrong", replaceAll(paragraph, Bold))
    ELSE IF startsWith(paragraph, Star) /\ endsWith(paragraph, Star)
         THEN Block("EmphasisLight", replaceAll(paragraph, Star))
    ELSE IF startsWith(paragraph, Fence) /\ endsWith(paragraph, Fence)
         THEN Block("Code", replaceAll(paragraph, Fence))
    ELSE Block("Paragraph", paragraph)

\* renderContent: content.split('\n').map(...)
renderContent(text) ==
    LET lines == split(text)
    IN [i \in 1 .. Len(lines) |-> renderContentLine(lines[i])]

\* renderSlideContent, one line: br for a blank line, h1, h2, h3, p bold
\* (Emphasis-strong), p italic (Emphasis-light), li, hr, p (Paragraph).
renderSlideLine(line) ==
    IF trim(line) = <<>> THEN Block("LineBreak", <<>>)
    ELSE IF startsWith(line, H1) THEN Block("Heading1", replaceFirst(line, H1))
    ELSE IF startsWith(line, H2) THEN Block("Heading2", replaceFirst(line, H2))
    ELSE IF startsWith(line, H3) THEN Block("Heading3", replaceFirst(line, H3))
    ELSE IF startsWith(line, Bold) /\ endsWith(line, Bold)
         THEN Block("EmphasisStrong", replaceAll(line, Bold))
    ELSE IF startsWith(line, Star) /\ ~startsWith(line, Bold)
         THEN Block("EmphasisLight", replaceLeadingStar(line))
    ELSE IF startsWith(line, Bullet)
         THEN Block("ListItem", replaceFirst(line, Bullet))
    ELSE IF startsWith(line, Rule) THEN Block("Divider", <<>>)
    ELSE Block("Paragraph", line)

\* renderSlideContent: content.split('\n').map(...)
renderSlideContent(text) ==
    LET lines == split(text)
    IN [i \in 1 .. Len(lines) |-> renderSlideLine(lines[i])]

\* renderFigure: the figure's markup followed by its caption, or null when
\* the figure has no markup.
renderFigure(figure) ==
    IF figure.svg_content # ""
    THEN Block("Figure", <<figure.svg_content, figure.caption>>)
    ELSE NullBlock

\* (variant of renderSection that puts the figures above the content)
renderSectionFiguresFirst(text, figs) ==
    [i \in 1 .. Len(figs) |-> renderFigure(figs[i])] \o renderContent(text)

\* The section pane: the elements of the section's content, then one wrapper
\* per figure holding renderFigure(figure).
renderSection(text, figs) ==
    renderContent(text) \o [i \in 1 .. Len(figs) |-> renderFigure(figs[i])]

\* What React shows of a list of elements: null renders nothing.
IsElement(b) == b # NullBlock
Rendered(elements) == SelectSeq(elements, IsElement)

\* ------------------------------------------------- markup: specification
\* Longest text of the exhaustive part of the renderers' inputs.
MaxTextLen == 4
\* Largest number of figures of a section.
MaxFigures == 2

Alphabet == {"*", "#", "-", " ", Backquote, "a", Newline}
ShortTexts == UNION {[1 .. n -> Alphabet] : n \in 0 .. MaxTextLen}

\* "# Intro\n**Key Point**\n- item one\nplain text"
ScenarioText ==
    <<"#", " ", "I", "n", "t", "r", "o", Newline,
      "*", "*", "K", "e", "y", " ", "P", "o", "i", "n", "t", "*", "*", Newline,
      "-", " ", "i", "t", "e", "m", " ", "o", "n", "e", Newline,
      "p", "l", "a", "i", "n", " ", "t", "e", "x", "t">>

\* Longer texts: "**bold**", "**a**b**", "*a*b*", "*note", "* item",
\* a fenced "a", "### a", "- a\n\n---", "a\n\nb\n".
LongTexts ==
    { ScenarioText,
      <<"*", "*", "b", "o", "l", "d", "*", "*">>,
      <<"*", "*", "a", "*", "*", "b", "*", "*">>,
      <<"*", "a", "*", "b", "*">>,
      <<"*", "n", "o", "t", "e">>,
      <<"*", " ", "i", "t", "e", "m">>,
      Fence \o <<"a">> \o Fence,
      <<"#", "#", "#", " ", "a">>,
      <<"-", " ", "a", Newline, Newline, "-", "-", "-">>,
      <<"a", Newline, Newline, "b", Newline>> }

\* The figures a section may hold; the first has no markup.
Figures ==
    { [svg_content |-> "", caption |-> "c0"],
      [svg_content |-> "<svg>1</svg>", caption |-> "c1"],
      [svg_content |-> "<svg>2</svg>", caption |-> "c2"] }
FigureLists == UNION {[1 .. n -> Figures] : n \in 1 .. MaxFigures}

\* The renderers as functions: a text (and the figures of a section) is
\* drawn, and one of the renderers is applied to it.
InitRender ==
    /\ route = "/"
    /\ WpCreated
    /\ PvCreated
    /\ NoOpYet
    /\ surface = "none"
    /\ blocks = <<>>
    /\ \/ content \in ShortTexts \cup LongTexts /\ figures = <<>>
       \/ content \in LongTexts /\ figures \in FigureLists

\* The Abstract pane: renderContent(whitePaper?.abstract || "")
RenderContent ==
    /\ surface = "none"
    /\ figures = <<>>
    /\ surface' = "document"
    /\ blocks' = renderContent(content)
    /\ UNCHANGED <<route, wpVars, pvVars, opVars, content, figures>>

\* The section pane: content, then figures.
RenderSection ==
    /\ surface = "none"
    /\ surface' = "section"
    /\ blocks' = renderSection(content, figures)
    /\ UNCHANGED <<route, wpVars, pvVars, opVars, content, figures>>

\* The slide: slide && renderSlideContent(slide.content)
RenderSlideContent ==
    /\ surface = "none"
    /\ figures = <<>>
    /\ surface' = "slide"
    /\ blocks' = renderSlideContent(content)
    /\ UNCHANGED <<route, wpVars, pvVars, opVars, content, figures>>

NextRender ==
    \/ RenderContent
    \/ RenderSection
    \/ RenderSlideContent

SpecRender == InitRender /\ [][NextRender]_vars

\* ================================================================ claims
\* The order of the document positions the specification gives: Abstract,
\* 0, 1, ..., N-1, References.
Successor(len, a) ==
    IF a = ABSTRACT THEN (IF len >= 1 THEN 0 ELSE REFERENCES)
    ELSE IF a = len - 1 THEN REFERENCES
    ELSE a + 1

Predecessor(len, a) ==
    IF a = REFERENCES THEN (IF len >= 1 THEN len - 1 ELSE ABSTRACT)
    ELSE IF a = 0 THEN ABSTRACT
    ELSE a - 1

Clamp(p, lo, hi) == IF p < lo THEN lo ELSE IF p > hi THEN hi ELSE p

\* C1 (as claimed): with a loaded deck of N >= 1 slides, goToSlide(p) leaves
\* the current slide at p clamped into 0..N-1, for every integer p.
C1_GoToSlideClamps ==
    (pvContentRendered /\ SlidesLength >= 1 /\ lastOp = "goToSlide")
        => currentSlide = Clamp(lastArg, 0, SlidesLength - 1)

\* C2 (as claimed): in the document viewer, Next at References leaves the
\* position at References.
C2_NextAtReferencesStays ==
    (wpContentRendered /\ lastOp = "wpNext" /\ lastFrom = REFERENCES)
        => activeSection = REFERENCES

C4_PreviousStepsBackward ==
    (wpContentRendered /\ SectionsLength >= 1 /\ lastOp = "wpPrevious"
                       /\ lastFrom # ABSTRACT)
        => activeSection = Predecessor(SectionsLength, lastFrom)

\* C5: in the document viewer, Previous at Abstract leaves the position at
\* Abstract, for every number of sections N >= 0.
C5_PreviousAtAbstractStays ==
    (wpContentRendered /\ lastOp = "wpPrevious" /\ lastFrom = ABSTRACT)
        => activeSection = ABSTRACT

\* C5 witness: Previous has been run at Abstract in a paper without sections.
C5_Witness ==
    /\ wpContentRendered
    /\ SectionsLength = 0
    /\ lastOp = "wpPrevious"
    /\ lastFrom = ABSTRACT
    /\ activeSection = ABSTRACT

\* C6: with a loaded deck of N >= 1 slides, a step of prevSlide at slide 0 and
\* a step of nextSlide at slide N-1 leave the current slide, and the rest of
\* the state of the viewers, as they were.
C6_SlideBoundariesAreNoOps ==
    [][ (/\ pvContentRendered
         /\ SlidesLength >= 1
         /\ \/ (currentSlide = 0 /\ PrevSlideCall)
            \/ (currentSlide = SlidesLength - 1 /\ NextSlideCall))
        => UNCHANGED <<route, wpVars, pvVars>> ]_vars

\* C6 witness: nextSlide has been run at slide 0 of a deck of size 1.
C6_Witness ==
    /\ pvContentRendered
    /\ SlidesLength = 1
    /\ lastOp = "nextSlide"
    /\ lastFrom = 0
    /\ currentSlide = 0

\* C7 (as claimed): for a loaded paper of N sections the position is always
\* one of the N+2 positions Abstract, 0..N-1, References.
C7_PositionInValidSet ==
    wpContentRendered => activeSection \in TocEntries(SectionsLength)

\* C8 (as claimed): from session start until the first navigation operation,
\* the fetch resolving included, the position is Abstract in the document
\* viewer and slide 0 in the slide viewer.
C8_StartsAtAbstract ==
    /\ (route = "/whitepaper" /\ lastOp = "none") => activeSection = ABSTRACT
    /\ (route = "/presentation" /\ lastOp = "none") => currentSlide = 0

\* C9: with a loaded deck of N >= 1 slides, whatever the rendered controls
\* did, the current slide index is in 0..N-1: the counter currentSlide + 1 is
\* between 1 and N and a slide exists at the index.
C9_SlideIndexInRange ==
    (pvContentRendered /\ SlidesLength >= 1)
        => /\ currentSlide \in 0 .. SlidesLength - 1
           /\ currentSlide + 1 \in 1 .. SlidesLength

\* C9 witness: a thumbnail has taken the viewer to the last slide of a deck of
\* two or more slides.
C9_Witness ==
    /\ pvContentRendered
    /\ SlidesLength >= 2
    /\ lastOp = "goToSlide"
    /\ lastFrom = 0
    /\ currentSlide = SlidesLength - 1

\* C10: a view session issues its fetch once, as its first step: never a second
\* one, also after a failure, and at most one request awaits its response.
C10_FetchIssuedOnce ==
    /\ wpFetches <= 1 /\ wpPending <= 1
    /\ pvFetches <= 1 /\ pvPending <= 1
    /\ (route = "/whitepaper" /\ wpFetches = 0) => (WpCreated /\ NoOpYet)
    /\ (route = "/presentation" /\ pvFetches = 0) => (PvCreated /\ NoOpYet)
    /\ (~wpLoading \/ wpError # NullError) => (wpFetches = 1 /\ wpPending = 0)
    /\ (~pvLoading \/ pvError # NullError) => (pvFetches = 1 /\ pvPending = 0)

\* C10 witness: the paper's fetch has failed; no other request was issued.
C10_Witness ==
    /\ route = "/whitepaper"
    /\ wpError # NullError
    /\ ~wpLoading
    /\ wpFetches = 1
    /\ wpPending = 0

\* A viewer's fetch has resolved once its effect has run and no request
\* awaits its response.
WpResolved == wpEffectDone /\ wpPending = 0
PvResolved == pvEffectDone /\ pvPending = 0

\* C11: in both viewers, in every state before the fetch has resolved the
\* loading pane is what is rendered: no content, no link, no navigation
\* control, and no navigation handler has run.
C11_OnlyLoadingBeforeResolution ==
    /\ (route = "/whitepaper" /\ ~WpResolved)
         => /\ wpPane = "loading"
            /\ ~wpContentRendered
            /\ Links = {}
            /\ NoOpYet
    /\ (route = "/presentation" /\ ~PvResolved)
         => /\ pvPane = "loading"
            /\ ~pvContentRendered
            /\ Links = {}
            /\ NoOpYet

\* C11 witness: the paper's request awaits its response.
C11_Witness ==
    /\ route = "/whitepaper"
    /\ wpPending = 1
    /\ wpPane = "loading"

WpErrorState == route = "/whitepaper" /\ ~wpLoading /\ wpError # NullError
PvErrorState == route = "/presentation" /\ ~pvLoading /\ pvError # NullError

\* C12: once the fetch has failed the viewer shows the error pane: the data is
\* absent, no content is rendered, the only link leads home, and no step of
\* the same session changes the viewer's state.
C12_ErrorStateIsTerminal ==
    /\ [](WpErrorState => /\ whitePaper = NullData
                          /\ wpPane = "error"
                          /\ ~wpContentRendered
                          /\ Links = {"/"})
    /\ [](PvErrorState => /\ presentation = NullData
                          /\ pvPane = "error"
                          /\ ~pvContentRendered
                          /\ Links = {"/"})
    /\ [][ (WpErrorState /\ route' = route) => UNCHANGED <<wpVars, opVars>> ]_vars
    /\ [][ (PvErrorState /\ route' = route) => UNCHANGED <<pvVars, opVars>> ]_vars

\* C12 witness: the deck's fetch has failed.
C12_Witness ==
    /\ PvErrorState
    /\ pvFetches = 1
    /\ PvResolved

\* ------------------------------------------------ claims on the renderers
\* The lines of the rendered text, counted and judged without the renderers'
\* own helpers: a text has one line more than it has newlines, and a line is
\* blank when it holds nothing but whitespace.
NewlineCount == Cardinality({i \in 1 .. Len(content) : content[i] = Newline})
LineCount == NewlineCount + 1
\* Line k is what lies between newline k-1 and newline k.
LineStart(k) ==
    IF k = 1 THEN 1
    ELSE 1 + CHOOSE i \in 1 .. Len(content) :
                /\ content[i] = Newline
                /\ Cardinality({j \in 1 .. i : content[j] = Newline}) = k - 1
LineEnd(k) ==
    IF k = LineCount THEN Len(content)
    ELSE (CHOOSE i \in 1 .. Len(content) :
                /\ content[i] = Newline
                /\ Cardinality({j \in 1 .. i : content[j] = Newline}) = k) - 1
Line(k) == SubSeq(content, LineStart(k), LineEnd(k))
IsBlankLine(k) == \A i \in LineStart(k) .. LineEnd(k) : IsWhitespace(content[i])
NonBlankLines == {k \in 1 .. LineCount : ~IsBlankLine(k)}

C14_ScenarioParsedOnDocument ==
    (surface = "document" /\ content = ScenarioText)
        => blocks = << Block("Heading1", <<"I", "n", "t", "r", "o">>),
                       Block("EmphasisStrong", <<"K", "e", "y", " ", "P", "o", "i", "n", "t">>),
                       Block("ListItem", <<"i", "t", "e", "m", " ", "o", "n", "e">>),
                       Block("Paragraph", <<"p", "l", "a", "i", "n", " ", "t", "e", "x", "t">>) >>

\* C15: for every (non-blank) line the document parser and the slide parser
\* produce the same block type and the same payload.
C15_SurfacesParseAlike ==
    surface = "document"
        => \A k \in NonBlankLines : blocks[k] = renderSlideLine(Line(k))

\* The rules of the grammar as the specification words them.
\* Rule 4: wrapped in the strong marker, longer than twice the marker.
WrappedStrong(k) ==
    /\ Len(Line(k)) > 2 * Len(Bold)
    /\ SubSeq(Line(k), 1, 2) = Bold
    /\ SubSeq(Line(k), Len(Line(k)) - 1, Len(Line(k))) = Bold
\* Rule 5: starts and ends with the light marker and is not rule 4.
WrappedLight(k) ==
    /\ Len(Line(k)) >= 1
    /\ Line(k)[1] = "*"
    /\ Line(k)[Len(Line(k))] = "*"
    /\ ~WrappedStrong(k)
\* The line without its first n and its last n characters.
Unwrapped(k, n) == SubSeq(Line(k), n + 1, Len(Line(k)) - n)
HasPrefix(k, prefix) ==
    /\ Len(Line(k)) >= Len(prefix)
    /\ \A i \in 1 .. Len(prefix) : Line(k)[i] = prefix[i]
HasSuffix(k, suffix) ==
    /\ Len(Line(k)) >= Len(suffix)
    /\ \A i \in 1 .. Len(suffix) :
          Line(k)[Len(Line(k)) - Len(suffix) + i] = suffix[i]
\* Rules 1 to 8: some marker rule applies to line k.
MatchesMarkerRule(k) ==
    \/ HasPrefix(k, H1) \/ HasPrefix(k, H2) \/ HasPrefix(k, H3)
    \/ WrappedStrong(k)
    \/ WrappedLight(k)
    \/ HasPrefix(k, Fence) /\ HasSuffix(k, Fence)
    \/ HasPrefix(k, Bullet)
    \/ HasPrefix(k, Rule)

\* C16: on both surfaces a line that starts and ends with '**' and has content
\* between the markers is Emphasis-strong and its payload is the line with the
\* two markers stripped.
C16_WrappedStrongStripsBothMarkers ==
    surface \in {"document", "slide"}
        => \A k \in 1 .. LineCount :
              WrappedStrong(k)
                  => blocks[k] = Block("EmphasisStrong", Unwrapped(k, Len(Bold)))

\* C17: on both surfaces a line is Emphasis-strong only if it starts and ends
\* with '**' and is longer than 4 characters; '**', '***', '****' are not.
C17_StrongNeedsContent ==
    surface \in {"document", "slide"}
        => \A k \in 1 .. LineCount :
              blocks[k].type = "EmphasisStrong" => WrappedStrong(k)

\* C18: on both surfaces a line is Emphasis-light exactly when it starts and
\* ends with '*' and is not Emphasis-strong, its payload is the line with the
\* leading and the trailing marker stripped, and a line that only starts with
\* '*' is not Emphasis-light.
C18_LightExactlyWhenWrapped ==
    surface \in {"document", "slide"}
        => \A k \in NonBlankLines :
              /\ (blocks[k].type = "EmphasisLight") <=> WrappedLight(k)
              /\ blocks[k].type = "EmphasisLight"
                    => blocks[k].text = Unwrapped(k, Len(Star))

\* C19: on both surfaces every line is answered with a block, and a non-blank
\* line that matches none of the marker rules is a Paragraph holding the line
\* verbatim.
C19_FallbackIsVerbatimParagraph ==
    surface \in {"document", "slide"}
        => /\ Len(blocks) = LineCount
           /\ \A k \in NonBlankLines :
                 ~MatchesMarkerRule(k) => blocks[k] = Block("Paragraph", Line(k))

\* C20: a section whose k figures all carry vector markup is rendered as its
\* parsed content blocks followed by exactly k figure units, in the order of
\* the figures list, each the figure's markup followed by its caption.
C20_FiguresFollowContent ==
    (surface = "section" /\ \A i \in 1 .. Len(figures) : figures[i].svg_content # "")
        => /\ Len(blocks) = LineCount + Len(figures)
           /\ SubSeq(blocks, 1, LineCount) = renderContent(content)
           /\ \A i \in 1 .. Len(figures) :
                 blocks[LineCount + i] =
                     Block("Figure", <<figures[i].svg_content, figures[i].caption>>)
           /\ Len(Rendered(blocks)) = Cardinality(NonBlankLines) + Len(figures)

\* C20 witness: a section with two different figures, both with markup, has
\* been rendered, the first figure's unit right after the content.
C20_Witness ==
    /\ surface = "section"
    /\ Len(figures) = 2
    /\ figures[1] # figures[2]
    /\ \A i \in 1 .. 2 : figures[i].svg_content # ""
    /\ Cardinality(NonBlankLines) >= 1
    /\ Len(blocks) = LineCount + 2
    /\ blocks[LineCount + 1].text[1] = figures[1].svg_content
    /\ blocks[LineCount + 2].text[2] = figures[2].caption

\* ------------------------------------------- claims on keys, panes, phases
\* C21: while the presentation view shows a loaded deck, an ArrowRight key
\* event has the effect of nextSlide on the current slide index and an
\* ArrowLeft key event the effect of prevSlide.
C21_ArrowKeysNavigate ==
    pvContentRendered
        => /\ ENABLED (/\ KeyDown("ArrowRight")
                       /\ currentSlide' = nextSlide(SlidesLength, currentSlide))
           /\ ENABLED (/\ KeyDown("ArrowLeft")
                       /\ currentSlide' = prevSlide(currentSlide))

\* The valid positions of a loaded paper of n sections and of a loaded deck
\* of n slides.
WpPositions(n) == {-1, -2} \cup (0 .. n - 1)
PvPositions(n) == 0 .. n - 1
\* One navigation operation of the rendered document viewer, of the rendered
\* slide viewer.
WpNavigation ==
    \/ \E p \in WpPositions(MaxSections) : WpTocClick(p)
    \/ WpPreviousClick
    \/ WpNextClick
PvNavigation ==
    \/ PrevSlideClick
    \/ NextSlideClick
    \/ \E i \in PvPositions(MaxSlides) : GoToSlideClick(i)

\* C22: in a loaded session with at least two valid positions, whatever the
\* current position, every other valid position is the result of some
\* navigation operation that is available now: no position is terminal and
\* every valid position stays reachable from every other.
C22_NoTerminalPosition ==
    /\ wpContentRendered
         => \A q \in WpPositions(SectionsLength) \ {activeSection} :
               ENABLED (WpNavigation /\ activeSection' = q)
    /\ (pvContentRendered /\ SlidesLength >= 2)
         => \A q \in PvPositions(SlidesLength) \ {currentSlide} :
               ENABLED (PvNavigation /\ currentSlide' = q)

\* C22 witness: the last slide of a deck of three or more, reached by one
\* operation from the first slide.
C22_Witness ==
    /\ pvContentRendered
    /\ SlidesLength >= 3
    /\ currentSlide = SlidesLength - 1
    /\ lastOp = "goToSlide" /\ lastFrom = 0

\* C23: in the loaded document viewer, for every reachable position and every
\* number of sections N >= 0, exactly one of the three content panes
\* (Abstract, References, section i) is rendered.
C23_ExactlyOnePane ==
    wpContentRendered
        => Cardinality(wpContentPanes(SectionsLength, activeSection)) = 1

\* A view session lasts while the route stays: a route change creates the
\* viewers anew.
SameSession == route' = route
WpDataPresent == whitePaper # NullData
WpErrorPresent == wpError # NullError
PvDataPresent == presentation # NullData
PvErrorPresent == pvError # NullError

\* C24: in both viewers loading starts true and, once false, stays false for
\* the rest of the session; whenever loading is false exactly one of 'data
\* present' and 'error present' holds; data and error are never both set.
C24_PhasesExclusiveAndMonotone ==
    /\ [][ ~SameSession => (wpLoading' /\ pvLoading') ]_vars
    /\ [](~wpEffectDone => wpLoading)
    /\ [](~pvEffectDone => pvLoading)
    /\ [][ (SameSession /\ ~wpLoading) => ~wpLoading' ]_vars
    /\ [][ (SameSession /\ ~pvLoading) => ~pvLoading' ]_vars
    /\ [](~wpLoading => (WpDataPresent <=> ~WpErrorPresent))
    /\ [](~pvLoading => (PvDataPresent <=> ~PvErrorPresent))
    /\ [](~(WpDataPresent /\ WpErrorPresent))
    /\ [](~(PvDataPresent /\ PvErrorPresent))

\* C24 witness: a deck was loaded and the session went on past the loading
\* phase (a navigation handler has run).
C24_Witness ==
    /\ route = "/presentation"
    /\ ~pvLoading
    /\ PvDataPresent /\ ~PvErrorPresent
    /\ lastOp = "nextSlide"
    /\ currentSlide = 1

\* C25: at every reachable position of a loaded paper, and of a loaded deck
\* (of at least one slide), the Previous button is disabled exactly when the
\* Previous operation would leave the position unchanged, likewise the Next
\* button, and a click on an enabled button has changed the position.
C25_DisabledExactlyWhenNoOp ==
    /\ wpContentRendered
         => /\ wpPreviousDisabled(activeSection)
                 <=> (wpPrevious(activeSection) = activeSection)
            /\ wpNextDisabled(SectionsLength, activeSection)
                 <=> (wpNext(SectionsLength, activeSection) = activeSection)
            /\ lastOp \in {"wpPrevious", "wpNext"} => activeSection # lastFrom
    /\ (pvContentRendered /\ SlidesLength >= 1)
         => /\ prevSlideDisabled(currentSlide)
                 <=> (prevSlide(currentSlide) = currentSlide)
            /\ nextSlideDisabled(SlidesLength, currentSlide)
                 <=> (nextSlide(SlidesLength, currentSlide) = currentSlide)
            /\ lastOp \in {"prevSlide", "nextSlide"} => currentSlide # lastFrom

\* C25 witness: a click on Next has taken the document viewer to the last
\* section of a paper of two or more sections, where Next is now disabled.
C25_Witness ==
    /\ wpContentRendered
    /\ SectionsLength >= 2
    /\ lastOp = "wpNext"
    /\ activeSection = SectionsLength - 1
    /\ wpNextDisabled(SectionsLength, activeSection)
    /\ ~wpPreviousDisabled(activeSection)

====
